---- MODULE Spec2Model ----
(***************************************************************************)
(* The PostgreSQL statistics pipeline of mackerel-plugin-postgres          *)
(* (lib/postgres.go): one FetchMetrics cycle opens a connection, detects   *)
(* the server version, runs three statistics queries, merges the three     *)
(* maps and closes the connection.                                         *)
(*                                                                         *)
(* Go strings are modelled as sequences of one-character strings, so that  *)
(* the regular expressions and strings.TrimRight act on characters.        *)
(* Counters are naturals: the inputs keep every sum far below 2^64.        *)
(***************************************************************************)
EXTENDS Integers, Sequences, FiniteSets, TLC

VARIABLES
    pc,                 \* position inside / between FetchMetrics invocations
    open,               \* number of connections currently open
    opened,             \* connections opened by the current invocation
    queries,            \* queries issued by the current invocation, in order
    dbVersion,          \* what the server answered to "select version()"
    dbStat,             \* ... to "SELECT * FROM pg_stat_database"
    dbConn,             \* ... to the pg_stat_activity query
    dbSize,             \* ... to the pg_database_size query
    version,            \* local variable version of FetchMetrics
    statStatDatabase,   \* local variable statStatDatabase of FetchMetrics
    statConnections,    \* local variable statConnections of FetchMetrics
    statDatabaseSize,   \* local variable statDatabaseSize of FetchMetrics
    ret                 \* what the last FetchMetrics invocation returned

vars == <<pc, open, opened, queries, dbVersion, dbStat, dbConn, dbSize,
          version, statStatDatabase, statConnections, statDatabaseSize, ret>>

-----------------------------------------------------------------------------
(* Bounds of the model *)

MaxTail == 6

-----------------------------------------------------------------------------
(* Characters and strings *)

SeqsUpTo(S, n) == UNION {[1..k -> S] : k \in 0..n}

DigitSeq == <<"0","1","2","3","4","5","6","7","8","9">>

Digits == {DigitSeq[i] : i \in 1..10}

DigitVal(c) == (CHOOSE i \in 1..10 : DigitSeq[i] = c) - 1

Lower ==
    {"a","b","c","d","e","f","g","h","i","j","k","l","m",
     "n","o","p","q","r","s","t","u","v","w","x","y","z"}

Upper ==
    {"A","B","C","D","E","F","G","H","I","J","K","L","M",
     "N","O","P","Q","R","S","T","U","V","W","X","Y","Z"}

HasPrefixAt(s, i, p) ==
    /\ i + Len(p) - 1 <= Len(s)
    /\ \A k \in 1..Len(p) : s[i + k - 1] = p[k]

\* the index just after the longest run of digits of s that starts at i
RECURSIVE DigitsEnd(_, _)
DigitsEnd(s, i) ==
    IF i <= Len(s) /\ s[i] \in Digits THEN DigitsEnd(s, i + 1) ELSE i

CharAt(s, i) == IF i >= 1 /\ i <= Len(s) THEN s[i] ELSE "EOF"

-----------------------------------------------------------------------------
(* fetchVersion *)

PostgreSQL_ == <<"P","o","s","t","g","r","e","S","Q","L"," ">>

\* versionRe tried at position i of s: <<>> when it does not match there, else
\* the match and its four groups (a group that took no part is empty, as in
\* regexp.FindStringSubmatch, whose result always has 1 + NumSubexp elements)
versionReAt(s, i) ==
    LET a  == i + Len(PostgreSQL_)
        b  == DigitsEnd(s, a)
        c  == DigitsEnd(s, b + 1)
        d  == DigitsEnd(s, c + 1)
    IN  IF ~(HasPrefixAt(s, i, PostgreSQL_) /\ b > a /\ CharAt(s, b) = "." /\ c > b + 1)
        THEN <<>>
        ELSE IF CharAt(s, c) = "." /\ d > c + 1 /\ CharAt(s, d) = " "
        THEN <<SubSeq(s, i, d), SubSeq(s, a, b - 1), SubSeq(s, b + 1, c - 1),
               SubSeq(s, c, d - 1), SubSeq(s, c + 1, d - 1)>>
        ELSE IF CharAt(s, c) = " "
        THEN <<SubSeq(s, i, c), SubSeq(s, a, b - 1), SubSeq(s, b + 1, c - 1),
               <<>>, <<>>>>
        ELSE <<>>

\* versionRe.FindStringSubmatch: the leftmost match
versionRe(s) ==
    LET hits == {i \in 1..Len(s) : versionReAt(s, i) # <<>>}
    IN  IF hits = {} THEN <<>>
        ELSE versionReAt(s, CHOOSE i \in hits : \A j \in hits : i <= j)

MaxUint64 == <<"1","8","4","4","6","7","4","4","0","7","3","7","0","9","5","5","1","6","1","5">>

RECURSIVE StripZeros(_)
StripZeros(s) ==
    IF Len(s) > 1 /\ s[1] = "0" THEN StripZeros(Tail(s)) ELSE s

\* a > b for two digit strings of the same length
RECURSIVE DigitsGreater(_, _)
DigitsGreater(a, b) ==
    IF a = <<>> THEN FALSE
    ELSE IF DigitVal(a[1]) # DigitVal(b[1]) THEN DigitVal(a[1]) > DigitVal(b[1])
    ELSE DigitsGreater(Tail(a), Tail(b))

RECURSIVE DecimalValue(_)
DecimalValue(s) ==
    IF s = <<>> THEN 0
    ELSE 10 * DecimalValue(SubSeq(s, 1, Len(s) - 1)) + DigitVal(s[Len(s)])

\* strconv.ParseUint(s, 10, 0) on a 64-bit build
ParseUint(s) ==
    LET t == StripZeros(s)
    IN  IF s = <<>> \/ \E k \in 1..Len(s) : s[k] \notin Digits
        THEN [val |-> 0, err |-> "syntax"]
        ELSE IF Len(t) > Len(MaxUint64) \/ (Len(t) = Len(MaxUint64) /\ DigitsGreater(t, MaxUint64))
        THEN [val |-> 0, err |-> "range"]
        ELSE [val |-> DecimalValue(t), err |-> "nil"]

ZeroVersion == <<0, 0, 0>>

\* the body of the rows.Next() loop of fetchVersion on a matching row; submatch
\* is 1-based here, so Go's submatch[k] is submatch[k + 1]
parseSubmatch(submatch) ==
    LET first  == ParseUint(submatch[2])
        second == ParseUint(submatch[3])
        third  == ParseUint(submatch[5])
    IN  IF first.err # "nil" THEN [ver |-> ZeroVersion, err |-> first.err]
        ELSE IF second.err # "nil" THEN [ver |-> ZeroVersion, err |-> second.err]
        ELSE IF Len(submatch) = 5 /\ third.err # "nil"
        THEN [ver |-> ZeroVersion, err |-> third.err]
        ELSE [ver |-> <<first.val, second.val,
                        IF Len(submatch) = 5 THEN third.val ELSE 0>>,
              err |-> "nil"]

RECURSIVE versionRows(_, _)
versionRows(rows, i) ==
    IF i > Len(rows) THEN [ver |-> ZeroVersion, err |-> "failed to select version()"]
    ELSE IF ~rows[i].scanOk THEN [ver |-> ZeroVersion, err |-> "scan"]
    ELSE LET submatch == versionRe(rows[i].text)
         IN  IF Len(submatch) >= 4 THEN parseSubmatch(submatch)
             ELSE versionRows(rows, i + 1)

fetchVersion(resp) ==
    IF ~resp.ok THEN [ver |-> ZeroVersion, err |-> "query"]
    ELSE versionRows(resp.rows, 1)

-----------------------------------------------------------------------------
(* Metric maps: map[string]interface{} with the keys as strings *)

EmptyMap == [k \in {} |-> 0]

\* m[k] = v
Put(m, k, v) == [x \in DOMAIN m \cup {k} |-> IF x = k THEN v ELSE m[x]]

K_xact_commit ==
    <<"x","a","c","t","_","c","o","m","m","i","t">>

K_xact_rollback ==
    <<"x","a","c","t","_","r","o","l","l","b","a","c","k">>

K_blks_read ==
    <<"b","l","k","s","_","r","e","a","d">>

K_blks_hit ==
    <<"b","l","k","s","_","h","i","t">>

K_blk_read_time ==
    <<"b","l","k","_","r","e","a","d","_","t","i","m","e">>

K_blk_write_time ==
    <<"b","l","k","_","w","r","i","t","e","_","t","i","m","e">>

K_tup_returned ==
    <<"t","u","p","_","r","e","t","u","r","n","e","d">>

K_tup_fetched ==
    <<"t","u","p","_","f","e","t","c","h","e","d">>

K_tup_inserted ==
    <<"t","u","p","_","i","n","s","e","r","t","e","d">>

K_tup_updated ==
    <<"t","u","p","_","u","p","d","a","t","e","d">>

K_tup_deleted ==
    <<"t","u","p","_","d","e","l","e","t","e","d">>

K_deadlocks ==
    <<"d","e","a","d","l","o","c","k","s">>

K_temp_bytes ==
    <<"t","e","m","p","_","b","y","t","e","s">>

K_active ==
    <<"a","c","t","i","v","e">>

K_active_waiting ==
    <<"a","c","t","i","v","e","_","w","a","i","t","i","n","g">>

K_idle ==
    <<"i","d","l","e">>

K_idle_in_transaction ==
    <<"i","d","l","e","_","i","n","_","t","r","a","n","s","a","c","t","i","o","n">>

K_idle_in_transaction_aborted ==
    <<"i","d","l","e","_","i","n","_","t","r","a","n","s","a","c","t","i","o","n","_","a","b","o","r","t","e","d">>

K_idle_in_transaction_aborted_ ==
    <<"i","d","l","e","_","i","n","_","t","r","a","n","s","a","c","t","i","o","n","_","a","b","o","r","t","e","d","_">>

K_fastpath_function_call ==
    <<"f","a","s","t","p","a","t","h","_","f","u","n","c","t","i","o","n","_","c","a","l","l">>

K_disabled ==
    <<"d","i","s","a","b","l","e","d">>

K_total_size ==
    <<"t","o","t","a","l","_","s","i","z","e">>

K_waiting ==
    <<"_","w","a","i","t","i","n","g">>

-----------------------------------------------------------------------------
(* fetchStatDatabase *)

\* a nil *float64 / *uint64
NilPtr == [set |-> FALSE, val |-> 0]

Ptr(v) == [set |-> TRUE, val |-> v]

\* pgStat{}
pgStat ==
    [XactCommit |-> 0, XactRollback |-> 0, BlksRead |-> 0, BlksHit |-> 0,
     BlkReadTime |-> NilPtr, BlkWriteTime |-> NilPtr,
     TupReturned |-> 0, TupFetched |-> 0, TupInserted |-> 0, TupUpdated |-> 0,
     TupDeleted |-> 0, Deadlocks |-> NilPtr, TempBytes |-> NilPtr]

\* if p.F != nil { if totalStat.F == nil { totalStat.F = p.F } else { *totalStat.F += *p.F } }
addOptional(total, p) ==
    IF p.set
    THEN IF ~total.set THEN p ELSE Ptr(total.val + p.val)
    ELSE total

\* one iteration of the rows.Next() loop on a row that scanned into p
addRow(totalStat, p) ==
    [XactCommit   |-> totalStat.XactCommit + p.XactCommit,
     XactRollback |-> totalStat.XactRollback + p.XactRollback,
     BlksRead     |-> totalStat.BlksRead + p.BlksRead,
     BlksHit      |-> totalStat.BlksHit + p.BlksHit,
     BlkReadTime  |-> addOptional(totalStat.BlkReadTime, p.BlkReadTime),
     BlkWriteTime |-> addOptional(totalStat.BlkWriteTime, p.BlkWriteTime),
     TupReturned  |-> totalStat.TupReturned + p.TupReturned,
     TupFetched   |-> totalStat.TupFetched + p.TupFetched,
     TupInserted  |-> totalStat.TupInserted + p.TupInserted,
     TupUpdated   |-> totalStat.TupUpdated + p.TupUpdated,
     TupDeleted   |-> totalStat.TupDeleted + p.TupDeleted,
     Deadlocks    |-> addOptional(totalStat.Deadlocks, p.Deadlocks),
     TempBytes    |-> addOptional(totalStat.TempBytes, p.TempBytes)]

\* mutant of statRows: the loop ends at the first row that fails to scan
RECURSIVE statRowsBreak(_, _, _)
statRowsBreak(rows, i, totalStat) ==
    IF i > Len(rows) THEN totalStat
    ELSE IF ~rows[i].scanOk THEN totalStat
    ELSE statRowsBreak(rows, i + 1, addRow(totalStat, rows[i].p))

\* the rows.Next() loop: a row whose StructScan fails is skipped
RECURSIVE statRows(_, _, _)
statRows(rows, i, totalStat) ==
    IF i > Len(rows) THEN totalStat
    ELSE IF ~rows[i].scanOk THEN statRows(rows, i + 1, totalStat)
    ELSE statRows(rows, i + 1, addRow(totalStat, rows[i].p))

\* mutant of PutOptional: a counter no row reported is output as zero
PutOptionalAlways(m, k, ptr) == Put(m, k, ptr.val)

\* if totalStat.F != nil { stat[k] = *totalStat.F }
PutOptional(m, k, ptr) == IF ptr.set THEN Put(m, k, ptr.val) ELSE m

statMap(totalStat) ==
    LET s1  == Put(EmptyMap, K_xact_commit, totalStat.XactCommit)
        s2  == Put(s1, K_xact_rollback, totalStat.XactRollback)
        s3  == Put(s2, K_blks_read, totalStat.BlksRead)
        s4  == Put(s3, K_blks_hit, totalStat.BlksHit)
        s5  == PutOptional(s4, K_blk_read_time, totalStat.BlkReadTime)
        s6  == PutOptional(s5, K_blk_write_time, totalStat.BlkWriteTime)
        s7  == Put(s6, K_tup_returned, totalStat.TupReturned)
        s8  == Put(s7, K_tup_fetched, totalStat.TupFetched)
        s9  == Put(s8, K_tup_inserted, totalStat.TupInserted)
        s10 == Put(s9, K_tup_updated, totalStat.TupUpdated)
        s11 == Put(s10, K_tup_deleted, totalStat.TupDeleted)
        s12 == PutOptional(s11, K_deadlocks, totalStat.Deadlocks)
    IN  PutOptional(s12, K_temp_bytes, totalStat.TempBytes)

fetchStatDatabase(resp) ==
    IF ~resp.ok THEN [nil |-> TRUE, stat |-> EmptyMap, err |-> "query"]
    ELSE [nil |-> FALSE, stat |-> statMap(statRows(resp.rows, 1, pgStat)), err |-> "nil"]

-----------------------------------------------------------------------------
(* fetchConnections *)

QVersion == "select version()"

QStatDatabase == "SELECT * FROM pg_stat_database"

QWaitEvent ==
    "select count(*), state, wait_event is not null from pg_stat_activity group by state, wait_event is not null"

QWaiting == "select count(*), state, waiting from pg_stat_activity group by state, waiting"

QDatabaseSize ==
    "select sum(pg_database_size(datname)) as dbsize from pg_database where has_database_privilege(datname, 'connect')"

\* mutant of connectionsQuery: the boundary excludes 9.6
connectionsQueryAfter96(v) ==
    IF v[1] > 9 \/ (v[1] = 9 /\ v[2] > 6) THEN QWaitEvent ELSE QWaiting

\* the if that chooses query in fetchConnections
connectionsQuery(v) ==
    IF v[1] > 9 \/ (v[1] = 9 /\ v[2] >= 6) THEN QWaitEvent ELSE QWaiting

\* mutant of seedStat: idle_in_transaction_aborted is not seeded
seedStatFour ==
    LET s1 == Put(EmptyMap, K_active, 0)
        s2 == Put(s1, K_active_waiting, 0)
        s3 == Put(s2, K_idle, 0)
    IN  Put(s3, K_idle_in_transaction, 0)

\* stat := map[string]interface{}{...}
seedStat ==
    LET s1 == Put(EmptyMap, K_active, 0)
        s2 == Put(s1, K_active_waiting, 0)
        s3 == Put(s2, K_idle, 0)
        s4 == Put(s3, K_idle_in_transaction, 0)
    IN  Put(s4, K_idle_in_transaction_aborted, 0)

\* the characters of the class [a-zA-Z0-9_-]
WordChars == Lower \cup Upper \cup Digits \cup {"_", "-"}

\* the index just after the longest run of characters outside the class from i
RECURSIVE RunEnd(_, _)
RunEnd(s, i) ==
    IF i <= Len(s) /\ s[i] \notin WordChars THEN RunEnd(s, i + 1) ELSE i

\* normalizeRe.ReplaceAllString(s, "_") from position i on: the matches of
\* [^a-zA-Z0-9_-]+ are found left to right, each as long as possible
RECURSIVE normalizeRe(_, _)
normalizeRe(s, i) ==
    IF i > Len(s) THEN <<>>
    ELSE IF s[i] \in WordChars THEN <<s[i]>> \o normalizeRe(s, i + 1)
    ELSE <<"_">> \o normalizeRe(s, RunEnd(s, i))

\* mutant of TrimRight: one trailing underscore is removed, as by TrimSuffix
TrimRightOnce(s) ==
    IF s # <<>> /\ s[Len(s)] = "_" THEN SubSeq(s, 1, Len(s) - 1) ELSE s

\* strings.TrimRight(s, "_")
RECURSIVE TrimRight(_)
TrimRight(s) ==
    IF s # <<>> /\ s[Len(s)] = "_" THEN TrimRight(SubSeq(s, 1, Len(s) - 1)) ELSE s

\* mutant of stateKey: the waiting flag adds no suffix
stateKeyNoSuffix(state, waiting) == TrimRight(normalizeRe(state, 1))

\* the metric key of one pg_stat_activity row
stateKey(state, waiting) ==
    LET trimmed == TrimRight(normalizeRe(state, 1))
    IN  IF waiting THEN trimmed \o K_waiting ELSE trimmed

\* the rows.Next() loop: a row whose Scan fails is skipped
RECURSIVE connectionRows(_, _, _)
connectionRows(rows, i, stat) ==
    IF i > Len(rows) THEN stat
    ELSE IF ~rows[i].scanOk THEN connectionRows(rows, i + 1, stat)
    ELSE connectionRows(rows, i + 1,
             Put(stat, stateKey(rows[i].state, rows[i].waiting), rows[i].count))

fetchConnections(resp) ==
    IF ~resp.ok THEN [nil |-> TRUE, stat |-> EmptyMap, err |-> "query"]
    ELSE [nil |-> FALSE, stat |-> connectionRows(resp.rows, 1, seedStat), err |-> "nil"]

-----------------------------------------------------------------------------
(* fetchDatabaseSize *)

RECURSIVE sizeRows(_, _, _)
sizeRows(rows, i, totalSize) ==
    IF i > Len(rows) THEN totalSize
    ELSE IF ~rows[i].scanOk THEN sizeRows(rows, i + 1, totalSize)
    ELSE sizeRows(rows, i + 1, totalSize + rows[i].dbsize)

fetchDatabaseSize(resp) ==
    IF ~resp.ok THEN [nil |-> TRUE, stat |-> EmptyMap, err |-> "query"]
    ELSE [nil |-> FALSE, stat |-> Put(EmptyMap, K_total_size, sizeRows(resp.rows, 1, 0)),
          err |-> "nil"]

-----------------------------------------------------------------------------
(* mergeStat and GraphDefinition *)

\* mutant of mergeStat: a key dst already has keeps its value
mergeStatKeep(dst, src) ==
    [k \in DOMAIN dst \cup DOMAIN src |-> IF k \in DOMAIN dst THEN dst[k] ELSE src[k]]

\* for k, v := range src { dst[k] = v }
mergeStat(dst, src) ==
    [k \in DOMAIN dst \cup DOMAIN src |-> IF k \in DOMAIN src THEN src[k] ELSE dst[k]]

\* the Name of every metric of each graph of GraphDefinition
GraphDefinition ==
    [connections |-> {K_active, K_active_waiting, K_idle, K_idle_in_transaction,
                      K_idle_in_transaction_aborted_, K_fastpath_function_call,
                      K_disabled},
     commits     |-> {K_xact_commit, K_xact_rollback},
     blocks      |-> {K_blks_read, K_blks_hit},
     rows        |-> {K_tup_returned, K_tup_fetched, K_tup_inserted, K_tup_updated,
                      K_tup_deleted},
     size        |-> {K_total_size},
     deadlocks   |-> {K_deadlocks},
     iotime      |-> {K_blk_read_time, K_blk_write_time},
     tempfile    |-> {K_temp_bytes}]

-----------------------------------------------------------------------------
(* What the server can answer *)

MaxStatCount == 1
MaxStatRows == 3
MaxConnCount == 2
MaxConnRows == 2
MaxLabelLen == 3
MaxPairLabelLen == 2
MaxMajor == 11
MaxMinor == 7
MaxPatch == 1

\* no query issued yet
NoResp == [asked |-> FALSE, ok |-> FALSE, rows |-> <<>>]

\* db.Query / db.Queryx returns an error
QueryFails == [asked |-> TRUE, ok |-> FALSE, rows |-> <<>>]

\* the query succeeds and rows.Next() yields rs
Rows(rs) == [asked |-> TRUE, ok |-> TRUE, rows |-> rs]

\* the decimal numeral of n
RECURSIVE Dec(_)
Dec(n) ==
    IF n < 10 THEN <<DigitSeq[n + 1]>>
    ELSE Dec(n \div 10) \o <<DigitSeq[(n % 10) + 1]>>

T_963 ==
    <<"P","o","s","t","g","r","e","S","Q","L"," ","9",".","6",".","3"," ","o","n"," ","x","8","6","_","6","4">>

T_951 ==
    <<"P","o","s","t","g","r","e","S","Q","L"," ","9",".","5",".","1"," ","o","n"," ","x","8","6","_","6","4">>

T_1000 ==
    <<"P","o","s","t","g","r","e","S","Q","L"," ","1","0",".","0",".","0"," ","o","n"," ","x","8","6","_","6","4">>

T_103 ==
    <<"P","o","s","t","g","r","e","S","Q","L"," ","1","0",".","3"," ","o","n"," ","x","8","6","_","6","4">>

T_8422_prefixed ==
    <<"E","D","B"," ","P","o","s","t","g","r","e","S","Q","L"," ","8",".","4",".","2","2"," ">>

T_second_match ==
    <<"P","o","s","t","g","r","e","S","Q","L"," ","x"," ","P","o","s","t","g","r","e","S","Q","L"," ","9",".","6",".","1"," ">>

T_no_space ==
    <<"P","o","s","t","g","r","e","S","Q","L"," ","9",".","6",".","3">>

T_beta ==
    <<"P","o","s","t","g","r","e","S","Q","L"," ","1","1","b","e","t","a","1"," ","o","n"," ","x","8","6","_","6","4">>

T_mysql ==
    <<"M","y","S","Q","L"," ","5",".","7",".","1"," ">>

T_overflow ==
    <<"P","o","s","t","g","r","e","S","Q","L"," ","9","9","9","9","9","9","9","9","9","9","9","9","9","9","9","9","9","9","9","9",".","1",".","1"," ">>

T_patch_overflow ==
    <<"P","o","s","t","g","r","e","S","Q","L"," ","9",".","6",".","1","8","4","4","6","7","4","4","0","7","3","7","0","9","5","5","1","6","1","6"," ">>

VersionRow(text) == [scanOk |-> TRUE, text |-> text]

VersionScanFails == [scanOk |-> FALSE, text |-> <<>>]

TailChars == {"1", "0", ".", " ", "x"}

\* one row holding "PostgreSQL " followed by any short text, and the texts above
VersionInputs ==
    {Rows(<<VersionRow(PostgreSQL_ \o tl)>>) : tl \in SeqsUpTo(TailChars, MaxTail)}
    \cup {Rows(<<VersionRow(x)>>) :
            x \in {T_963, T_951, T_1000, T_103, T_8422_prefixed, T_second_match,
                   T_no_space, T_beta, T_mysql, T_overflow, T_patch_overflow}}

VersionResponses ==
    {QueryFails, Rows(<<>>), Rows(<<VersionScanFails>>),
     Rows(<<VersionRow(T_963)>>), Rows(<<VersionRow(T_951)>>),
     Rows(<<VersionRow(T_1000)>>), Rows(<<VersionRow(T_103)>>),
     Rows(<<VersionRow(T_mysql)>>), Rows(<<VersionRow(T_overflow)>>),
     Rows(<<VersionRow(T_patch_overflow)>>),
     Rows(<<VersionRow(T_mysql), VersionRow(T_8422_prefixed)>>)}

\* "PostgreSQL X.Y.Z " for every version of the bounds
VersionTriples ==
    {Rows(<<VersionRow(PostgreSQL_ \o Dec(x) \o <<".">> \o Dec(y) \o <<".">>
                       \o Dec(z) \o <<" ">>)>>) :
        x \in 0..MaxMajor, y \in 0..MaxMinor, z \in 0..MaxPatch}

OptionalColumns == {"blk_read_time", "blk_write_time", "deadlocks", "temp_bytes"}

\* a pg_stat_database row with every counter derived from c, the columns of
\* OptionalColumns outside `present` being NULL
StatRow(c, present) ==
    [scanOk |-> TRUE,
     p |-> [XactCommit |-> c, XactRollback |-> c + 1, BlksRead |-> c + 2,
            BlksHit |-> c + 3,
            BlkReadTime  |-> IF "blk_read_time" \in present THEN Ptr(c) ELSE NilPtr,
            BlkWriteTime |-> IF "blk_write_time" \in present THEN Ptr(2 * c) ELSE NilPtr,
            TupReturned |-> c + 4, TupFetched |-> c + 5, TupInserted |-> c + 6,
            TupUpdated |-> c + 7, TupDeleted |-> c + 8,
            Deadlocks |-> IF "deadlocks" \in present THEN Ptr(4 * c) ELSE NilPtr,
            TempBytes |-> IF "temp_bytes" \in present THEN Ptr(3 * c) ELSE NilPtr]]

StatScanFails == [scanOk |-> FALSE, p |-> pgStat]

ExampleStatRows ==
    <<StatRow(10, OptionalColumns), StatRow(20, OptionalColumns \ {"deadlocks"}),
      StatRow(5, OptionalColumns)>>

StatRowInputs ==
    {StatScanFails}
    \cup {StatRow(c, m) : c \in 0..MaxStatCount,
                          m \in {{}, OptionalColumns, {"blk_read_time", "deadlocks"},
                                 {"blk_write_time", "temp_bytes"}}}

StatInputs ==
    {QueryFails, Rows(ExampleStatRows)}
    \cup {Rows(rs) : rs \in SeqsUpTo(StatRowInputs, MaxStatRows)}

StatResponses ==
    {QueryFails, Rows(<<>>), Rows(ExampleStatRows), Rows(<<StatRow(1, {})>>),
     Rows(<<StatScanFails, StatRow(2, OptionalColumns)>>)}

L_active ==
    <<"a","c","t","i","v","e">>

L_idle ==
    <<"i","d","l","e">>

L_idle_in_transaction ==
    <<"i","d","l","e"," ","i","n"," ","t","r","a","n","s","a","c","t","i","o","n">>

L_idle_in_transaction_aborted ==
    <<"i","d","l","e"," ","i","n"," ","t","r","a","n","s","a","c","t","i","o","n"," ","(","a","b","o","r","t","e","d",")">>

L_fastpath_function_call ==
    <<"f","a","s","t","p","a","t","h"," ","f","u","n","c","t","i","o","n"," ","c","a","l","l">>

L_disabled ==
    <<"d","i","s","a","b","l","e","d">>

L_total_size ==
    <<"t","o","t","a","l"," ","s","i","z","e">>

L_xact_commit ==
    <<"x","a","c","t"," ","c","o","m","m","i","t">>

ConnRow(count, state, waiting) ==
    [scanOk |-> TRUE, count |-> count, state |-> state, waiting |-> waiting]

\* a row that does not scan, such as one whose state is NULL
ConnScanFails == [scanOk |-> FALSE, count |-> 0, state |-> <<>>, waiting |-> FALSE]

ServerStates ==
    {L_active, L_idle, L_idle_in_transaction, L_idle_in_transaction_aborted,
     L_fastpath_function_call, L_disabled}

LabelChars == {"a", "Z", "7", "_", "-", " ", "(", "."}

ConnRowInputs ==
    {ConnScanFails}
    \cup {ConnRow(n, s, w) : n \in 1..MaxConnCount, s \in ServerStates, w \in BOOLEAN}

L_active_waiting ==
    <<"a","c","t","i","v","e"," ","w","a","i","t","i","n","g">>

PairChars == {"a", "_", " "}

\* the server's states, a label that spells a waiting state, and short labels
PairLabels ==
    ServerStates \cup {L_active_waiting} \cup SeqsUpTo(PairChars, MaxPairLabelLen)

\* two rows of any two labels, with different counts
ConnPairInputs ==
    {Rows(<<ConnRow(1, s1, w1), ConnRow(2, s2, w2)>>) :
        s1 \in PairLabels, s2 \in PairLabels, w1 \in BOOLEAN, w2 \in BOOLEAN}

\* any rows of the server's states, one row of any short label, and two rows
\* of any two labels
ConnInputs ==
    {QueryFails}
    \cup {Rows(rs) : rs \in SeqsUpTo(ConnRowInputs, MaxConnRows)}
    \cup {Rows(<<ConnRow(1, s, w)>>) :
            s \in SeqsUpTo(LabelChars, MaxLabelLen), w \in BOOLEAN}
    \cup ConnPairInputs

ConnResponses ==
    {QueryFails, Rows(<<>>),
     Rows(<<ConnRow(3, L_active, FALSE), ConnRow(2, L_idle, FALSE),
            ConnRow(1, L_idle_in_transaction_aborted, FALSE)>>),
     Rows(<<ConnRow(1, L_active, TRUE), ConnScanFails, ConnRow(7, L_total_size, FALSE)>>),
     Rows(<<ConnRow(9, L_xact_commit, FALSE), ConnRow(4, L_disabled, FALSE)>>)}

SizeRow(n) == [scanOk |-> TRUE, dbsize |-> n]

SizeScanFails == [scanOk |-> FALSE, dbsize |-> 0]

SizeResponses ==
    {QueryFails, Rows(<<>>), Rows(<<SizeRow(5)>>), Rows(<<SizeScanFails>>)}

-----------------------------------------------------------------------------
(* FetchMetrics *)

Pending == [nil |-> TRUE, stat |-> EmptyMap, err |-> "pending"]

\* mutant of dbClose: the connection is never closed
dbCloseForgotten(n) == n

\* defer db.Close()
dbClose(n) == n - 1

\* a return of FetchMetrics after sqlx.Connect succeeded: the deferred Close runs
Return(r) ==
    /\ pc' = "returned"
    /\ ret' = r
    /\ open' = dbClose(open)

\* mutant of Fail: an empty map is returned with the error, not nil
FailWithMap(e) == [nil |-> FALSE, stat |-> EmptyMap, err |-> e]

\* return nil, err
Fail(e) == [nil |-> TRUE, stat |-> EmptyMap, err |-> e]

\* stat := make(map[string]interface{}) and the three mergeStat calls
mergedStat(a, b, c) == mergeStat(mergeStat(mergeStat(EmptyMap, a), b), c)

\* FetchMetrics is called; sqlx.Connect succeeds or fails
Connect ==
    /\ pc \in {"idle", "returned"}
    /\ queries' = <<>>
    /\ dbVersion' = NoResp /\ dbStat' = NoResp /\ dbConn' = NoResp /\ dbSize' = NoResp
    /\ version' = ZeroVersion
    /\ statStatDatabase' = EmptyMap /\ statConnections' = EmptyMap
    /\ statDatabaseSize' = EmptyMap
    /\ \E ok \in BOOLEAN :
         IF ok
         THEN /\ open' = open + 1
              /\ opened' = 1
              /\ pc' = "connected"
              /\ ret' = Pending
         ELSE /\ open' = open
              /\ opened' = 0
              /\ pc' = "returned"
              /\ ret' = Fail("connect")

\* version, err := fetchVersion(db)
FetchVersionOn(S) ==
    /\ pc = "connected"
    /\ \E r \in S :
         LET v == fetchVersion(r)
         IN  /\ dbVersion' = r
             /\ queries' = Append(queries, QVersion)
             /\ IF v.err # "nil"
                THEN /\ Return(Fail(v.err))
                     /\ version' = version
                ELSE /\ pc' = "versioned"
                     /\ version' = v.ver
                     /\ UNCHANGED <<ret, open>>
    /\ UNCHANGED <<opened, dbStat, dbConn, dbSize, statStatDatabase, statConnections,
                   statDatabaseSize>>

\* statStatDatabase, err := fetchStatDatabase(db)
FetchStatDatabaseOn(S) ==
    /\ pc = "versioned"
    /\ \E r \in S :
         LET s == fetchStatDatabase(r)
         IN  /\ dbStat' = r
             /\ queries' = Append(queries, QStatDatabase)
             /\ IF s.err # "nil"
                THEN /\ Return(Fail(s.err))
                     /\ statStatDatabase' = statStatDatabase
                ELSE /\ pc' = "statdb"
                     /\ statStatDatabase' = s.stat
                     /\ UNCHANGED <<ret, open>>
    /\ UNCHANGED <<opened, dbVersion, dbConn, dbSize, version, statConnections,
                   statDatabaseSize>>

\* statConnections, err := fetchConnections(db, version)
FetchConnectionsOn(S) ==
    /\ pc = "statdb"
    /\ \E r \in S :
         LET s == fetchConnections(r)
         IN  /\ dbConn' = r
             /\ queries' = Append(queries, connectionsQuery(version))
             /\ IF s.err # "nil"
                THEN /\ Return(Fail(s.err))
                     /\ statConnections' = statConnections
                ELSE /\ pc' = "conns"
                     /\ statConnections' = s.stat
                     /\ UNCHANGED <<ret, open>>
    /\ UNCHANGED <<opened, dbVersion, dbStat, dbSize, version, statStatDatabase,
                   statDatabaseSize>>

\* statDatabaseSize, err := fetchDatabaseSize(db)
FetchDatabaseSizeOn(S) ==
    /\ pc = "conns"
    /\ \E r \in S :
         LET s == fetchDatabaseSize(r)
         IN  /\ dbSize' = r
             /\ queries' = Append(queries, QDatabaseSize)
             /\ IF s.err # "nil"
                THEN /\ Return(Fail(s.err))
                     /\ statDatabaseSize' = statDatabaseSize
                ELSE /\ pc' = "sized"
                     /\ statDatabaseSize' = s.stat
                     /\ UNCHANGED <<ret, open>>
    /\ UNCHANGED <<opened, dbVersion, dbStat, dbConn, version, statStatDatabase,
                   statConnections>>

\* the three mergeStat calls and return stat, err
Merge ==
    /\ pc = "sized"
    /\ Return([nil |-> FALSE,
               stat |-> mergedStat(statStatDatabase, statConnections, statDatabaseSize),
               err |-> "nil"])
    /\ UNCHANGED <<opened, queries, dbVersion, dbStat, dbConn, dbSize, version,
                   statStatDatabase, statConnections, statDatabaseSize>>

FetchVersion == FetchVersionOn(VersionResponses)

FetchStatDatabase == FetchStatDatabaseOn(StatResponses)

FetchConnections == FetchConnectionsOn(ConnResponses)

FetchDatabaseSize == FetchDatabaseSizeOn(SizeResponses)

Init ==
    /\ pc = "idle"
    /\ open = 0
    /\ opened = 0
    /\ queries = <<>>
    /\ dbVersion = NoResp /\ dbStat = NoResp /\ dbConn = NoResp /\ dbSize = NoResp
    /\ version = ZeroVersion
    /\ statStatDatabase = EmptyMap /\ statConnections = EmptyMap
    /\ statDatabaseSize = EmptyMap
    /\ ret = Pending

Next ==
    \/ Connect
    \/ FetchVersion
    \/ FetchStatDatabase
    \/ FetchConnections
    \/ FetchDatabaseSize
    \/ Merge

Spec == Init /\ [][Next]_vars

-----------------------------------------------------------------------------
(* The steps of FetchMetrics on their own, from the state the steps before *)
(* them leave, over all the answers of the bounds                          *)

\* FetchMetrics has read the version of a 9.6.3 server
Versioned ==
    /\ pc = "versioned"
    /\ open = 1
    /\ opened = 1
    /\ queries = <<QVersion>>
    /\ dbVersion = Rows(<<VersionRow(T_963)>>)
    /\ dbConn = NoResp /\ dbSize = NoResp
    /\ version = fetchVersion(dbVersion).ver
    /\ statConnections = EmptyMap
    /\ statDatabaseSize = EmptyMap
    /\ ret = Pending

InitVersion ==
    /\ pc = "connected"
    /\ open = 1
    /\ opened = 1
    /\ queries = <<>>
    /\ dbVersion \in VersionInputs
    /\ dbStat = NoResp /\ dbConn = NoResp /\ dbSize = NoResp
    /\ version = ZeroVersion
    /\ statStatDatabase = EmptyMap /\ statConnections = EmptyMap
    /\ statDatabaseSize = EmptyMap
    /\ ret = Pending

NextVersion == FetchVersionOn({dbVersion})

SpecVersion == InitVersion /\ [][NextVersion]_vars

InitStatDatabase ==
    /\ Versioned
    /\ dbStat \in StatInputs
    /\ statStatDatabase = EmptyMap

NextStatDatabase == FetchStatDatabaseOn({dbStat})

SpecStatDatabase == InitStatDatabase /\ [][NextStatDatabase]_vars

InitConnections ==
    /\ pc = "statdb"
    /\ open = 1
    /\ opened = 1
    /\ queries = <<QVersion, QStatDatabase>>
    /\ dbVersion = Rows(<<VersionRow(T_963)>>)
    /\ dbStat = Rows(<<StatRow(1, OptionalColumns)>>)
    /\ dbConn \in ConnInputs
    /\ dbSize = NoResp
    /\ version = fetchVersion(dbVersion).ver
    /\ statStatDatabase = fetchStatDatabase(dbStat).stat
    /\ statConnections = EmptyMap
    /\ statDatabaseSize = EmptyMap
    /\ ret = Pending

NextConnections == FetchConnectionsOn({dbConn})

SpecConnections == InitConnections /\ [][NextConnections]_vars

InitSelect ==
    /\ pc = "connected"
    /\ open = 1
    /\ opened = 1
    /\ queries = <<>>
    /\ dbVersion \in VersionTriples
    /\ dbStat = NoResp /\ dbConn = NoResp /\ dbSize = NoResp
    /\ version = ZeroVersion
    /\ statStatDatabase = EmptyMap /\ statConnections = EmptyMap
    /\ statDatabaseSize = EmptyMap
    /\ ret = Pending

NextSelect ==
    \/ FetchVersionOn({dbVersion})
    \/ FetchStatDatabaseOn({Rows(<<StatRow(1, OptionalColumns)>>)})
    \/ FetchConnectionsOn({Rows(<<ConnRow(1, L_active, FALSE)>>)})

SpecSelect == InitSelect /\ [][NextSelect]_vars

-----------------------------------------------------------------------------
(* Claims *)

MaxVersionNum == 11

IsSubstring(p, s) == \E i \in 1..Len(s) : HasPrefixAt(s, i, p)

VersionText2(x, y) == PostgreSQL_ \o Dec(x) \o <<".">> \o Dec(y) \o <<" ">>

VersionText3(x, y, z) ==
    PostgreSQL_ \o Dec(x) \o <<".">> \o Dec(y) \o <<".">> \o Dec(z) \o <<" ">>

\* C1: whenever the version() text contains "PostgreSQL X.Y " or
\* "PostgreSQL X.Y.Z ", fetchVersion succeeds with exactly (X, Y, Z), Z = 0 when
\* the ".Z" part is absent.
C1_VersionParsed ==
    (pc # "connected" /\ dbVersion.ok /\ Len(dbVersion.rows) = 1) =>
        LET text == dbVersion.rows[1].text
        IN  \A x, y \in 0..MaxVersionNum :
              /\ IsSubstring(VersionText2(x, y), text) =>
                    pc = "versioned" /\ version = <<x, y, 0>>
              /\ \A z \in 0..MaxVersionNum :
                    IsSubstring(VersionText3(x, y, z), text) =>
                        pc = "versioned" /\ version = <<x, y, z>>

\* C1, the part the code keeps: a text containing "PostgreSQL X.Y.Z " gives
\* exactly (X, Y, Z).
C1_ThreeComponentsParsed ==
    (pc # "connected" /\ dbVersion.ok /\ Len(dbVersion.rows) = 1) =>
        LET text == dbVersion.rows[1].text
        IN  \A x, y, z \in 0..MaxVersionNum :
              IsSubstring(VersionText3(x, y, z), text) =>
                  pc = "versioned" /\ version = <<x, y, z>>

NoDuplicates(q) == \A i, j \in 1..Len(q) : q[i] = q[j] => i = j

\* the answers to "select version()" that the claim calls fatal: the query
\* fails, no row, a text that does not match, numbers that do not parse
C2_FatalVersionAnswers ==
    {QueryFails, Rows(<<>>), Rows(<<VersionRow(T_mysql)>>),
     Rows(<<VersionRow(T_overflow)>>), Rows(<<VersionRow(T_patch_overflow)>>)}

C2_Asked == Len(SelectSeq(<<dbVersion, dbStat, dbConn, dbSize>>, LAMBDA r : r.asked))

\* C2: when the connection cannot be opened, the version query fails, returns
\* no row, text that does not match or numbers that do not parse, or one of the
\* three statistics queries fails, FetchMetrics returns a nil map and a non-nil
\* error, the failing query is the last one issued and none was issued twice.
C2_FatalErrorReturnsNil ==
    /\ NoDuplicates(queries)
    /\ Len(queries) = C2_Asked
    /\ pc = "returned" =>
         /\ opened = 0 => ret.nil /\ ret.err # "nil" /\ queries = <<>>
         /\ dbVersion \in C2_FatalVersionAnswers =>
                ret.nil /\ ret.err # "nil" /\ queries = <<QVersion>>
         /\ (dbStat.asked /\ ~dbStat.ok) =>
                ret.nil /\ ret.err # "nil" /\ queries = <<QVersion, QStatDatabase>>
         /\ (dbConn.asked /\ ~dbConn.ok) =>
                ret.nil /\ ret.err # "nil" /\ Len(queries) = 3 /\ ~dbSize.asked
         /\ (dbSize.asked /\ ~dbSize.ok) =>
                ret.nil /\ ret.err # "nil" /\ Len(queries) = 4

\* C2 witness: the pg_stat_activity query failed and FetchMetrics returned
C2_Witness ==
    /\ pc = "returned"
    /\ dbConn = QueryFails
    /\ ret.nil /\ ret.err = "query"

\* C3: a connection that FetchMetrics opened is closed when it returns, on
\* every exit path; no connection is open between invocations and an
\* invocation opens at most one.
C3_ConnectionClosed ==
    /\ opened <= 1
    /\ open <= 1
    /\ pc \in {"idle", "returned"} => open = 0
    /\ pc \notin {"idle", "returned"} => open = 1 /\ opened = 1

\* C3 witness: FetchMetrics returned early, after the size query failed on an
\* open connection
C3_Witness ==
    /\ pc = "returned"
    /\ opened = 1
    /\ dbSize = QueryFails
    /\ open = 0

RECURSIVE SumSeq(_)
SumSeq(ns) == IF ns = <<>> THEN 0 ELSE ns[Len(ns)] + SumSeq(SubSeq(ns, 1, Len(ns) - 1))

\* the sum of f over the rows that scanned
SumScanned(rows, f(_)) ==
    SumSeq([i \in 1..Len(rows) |-> IF rows[i].scanOk THEN f(rows[i].p) ELSE 0])

OptionalValue(ptr) == IF ptr.set THEN ptr.val ELSE 0

\* the key is present with value v if some scanned row has a non-null value
\* under get, and absent otherwise
C4_Optional(key, get(_)) ==
    LET rows == dbStat.rows
        reported == \E i \in 1..Len(rows) : rows[i].scanOk /\ get(rows[i].p).set
    IN  /\ key \in DOMAIN statStatDatabase <=> reported
        /\ reported =>
             statStatDatabase[key] =
                SumScanned(rows, LAMBDA p : OptionalValue(get(p)))

\* C4: each of blk_read_time, blk_write_time, deadlocks, temp_bytes is in the
\* output exactly when some scanned row has a non-null value for it, and then
\* equals the sum of the non-null values.
C4_OptionalCounters ==
    pc = "statdb" =>
        /\ C4_Optional(K_blk_read_time, LAMBDA p : p.BlkReadTime)
        /\ C4_Optional(K_blk_write_time, LAMBDA p : p.BlkWriteTime)
        /\ C4_Optional(K_deadlocks, LAMBDA p : p.Deadlocks)
        /\ C4_Optional(K_temp_bytes, LAMBDA p : p.TempBytes)

\* C4 witness: three rows, deadlocks null in the second: 40 + 20 is reported
C4_Witness ==
    /\ pc = "statdb"
    /\ dbStat = Rows(ExampleStatRows)
    /\ ~dbStat.rows[2].p.Deadlocks.set
    /\ statStatDatabase[K_deadlocks] = 60

\* C6: each always-present counter is the sum of that counter over the rows
\* that scanned, 0 when there are none; a row that fails to scan adds nothing
\* and the rows after it are still added (commits 10, 20, 5 give 35).
C6_AlwaysPresentCounters ==
    pc = "statdb" =>
        LET rows == dbStat.rows
        IN  /\ statStatDatabase[K_xact_commit] = SumScanned(rows, LAMBDA p : p.XactCommit)
            /\ statStatDatabase[K_xact_rollback] = SumScanned(rows, LAMBDA p : p.XactRollback)
            /\ statStatDatabase[K_blks_read] = SumScanned(rows, LAMBDA p : p.BlksRead)
            /\ statStatDatabase[K_blks_hit] = SumScanned(rows, LAMBDA p : p.BlksHit)
            /\ statStatDatabase[K_tup_returned] = SumScanned(rows, LAMBDA p : p.TupReturned)
            /\ statStatDatabase[K_tup_fetched] = SumScanned(rows, LAMBDA p : p.TupFetched)
            /\ statStatDatabase[K_tup_inserted] = SumScanned(rows, LAMBDA p : p.TupInserted)
            /\ statStatDatabase[K_tup_updated] = SumScanned(rows, LAMBDA p : p.TupUpdated)
            /\ statStatDatabase[K_tup_deleted] = SumScanned(rows, LAMBDA p : p.TupDeleted)
            /\ dbStat = Rows(ExampleStatRows) => statStatDatabase[K_xact_commit] = 35

\* C6 witness: the second of three rows failed to scan and the third was added
C6_Witness ==
    /\ pc = "statdb"
    /\ Len(dbStat.rows) = 3
    /\ dbStat.rows[1].scanOk /\ ~dbStat.rows[2].scanOk /\ dbStat.rows[3].scanOk
    /\ statStatDatabase[K_tup_deleted] =
          dbStat.rows[1].p.TupDeleted + dbStat.rows[3].p.TupDeleted

\* C5: the pg_stat_activity query is the wait_event one exactly when
\* (major, minor) is at least (9, 6), whatever the patch: (9, 5, z) selects the
\* legacy query, (9, 6, 0) and (10, 0, 0) the wait_event one.
C5_QuerySelection ==
    pc \in {"conns", "returned"} /\ Len(queries) = 3 =>
        LET major == version[1]
            minor == version[2]
            below == major < 9 \/ (major = 9 /\ minor < 6)
        IN  /\ queries[3] = IF below THEN QWaiting ELSE QWaitEvent
            /\ (major = 9 /\ minor = 5) => queries[3] = QWaiting
            /\ version \in {<<9, 6, 0>>, <<10, 0, 0>>} => queries[3] = QWaitEvent

\* C5 witness: a 9.6.0 server was asked the wait_event query
C5_Witness ==
    /\ pc = "conns"
    /\ version = <<9, 6, 0>>
    /\ queries[3] = QWaitEvent

C7_SeededKeys ==
    {K_active, K_active_waiting, K_idle, K_idle_in_transaction,
     K_idle_in_transaction_aborted}

\* C7: whatever rows the pg_stat_activity query returns, the map has the five
\* seeded keys; with no rows all five are 0, and a seeded key that no scanned
\* row maps to is 0.
C7_SeededKeysPresent ==
    pc = "conns" =>
        LET rows == dbConn.rows
        IN  /\ C7_SeededKeys \subseteq DOMAIN statConnections
            /\ rows = <<>> => \A k \in C7_SeededKeys : statConnections[k] = 0
            /\ \A k \in C7_SeededKeys :
                 (\A i \in 1..Len(rows) :
                     rows[i].scanOk => stateKey(rows[i].state, rows[i].waiting) # k)
                 => statConnections[k] = 0

\* C7 witness: the query returned no rows and the map has five keys
C7_Witness ==
    /\ pc = "conns"
    /\ dbConn = Rows(<<>>)
    /\ DOMAIN statConnections = C7_SeededKeys

\* each character outside the class becomes "_" when it starts a run of such
\* characters and disappears otherwise
RECURSIVE C8_Collapsed(_, _)
C8_Collapsed(s, i) ==
    IF i > Len(s) THEN <<>>
    ELSE (IF s[i] \in WordChars THEN <<s[i]>>
          ELSE IF i = 1 \/ s[i - 1] \in WordChars THEN <<"_">>
          ELSE <<>>) \o C8_Collapsed(s, i + 1)

\* s up to its last character that is not "_"
C8_Trimmed(s) ==
    LET keep == {k \in 1..Len(s) : s[k] # "_"}
    IN  IF keep = {} THEN <<>>
        ELSE SubSeq(s, 1, CHOOSE k \in keep : \A j \in keep : j <= k)

C8_Key(state, waiting) ==
    C8_Trimmed(C8_Collapsed(state, 1)) \o (IF waiting THEN K_waiting ELSE <<>>)

\* C8: the key of a row is its state with every maximal run of characters
\* outside [A-Za-z0-9_-] replaced by one underscore, the trailing underscores
\* removed, and "_waiting" appended exactly when waiting; it holds only
\* characters of the class; "idle in transaction" gives idle_in_transaction,
\* "active" waiting gives active_waiting, "idle in transaction (aborted)" gives
\* idle_in_transaction_aborted.
C8_StateNormalization ==
    pc = "conns" =>
        LET rows == dbConn.rows
            scanned == {i \in 1..Len(rows) : rows[i].scanOk}
        IN  /\ DOMAIN statConnections =
                  C7_SeededKeys \cup {C8_Key(rows[i].state, rows[i].waiting) : i \in scanned}
            /\ \A k \in DOMAIN statConnections : \A j \in 1..Len(k) : k[j] \in WordChars
            /\ Len(rows) = 1 /\ scanned # {} =>
                  /\ statConnections[C8_Key(rows[1].state, rows[1].waiting)] = rows[1].count
                  /\ (rows[1].state = L_idle_in_transaction /\ ~rows[1].waiting)
                        => statConnections[K_idle_in_transaction] = rows[1].count
                  /\ (rows[1].state = L_active /\ rows[1].waiting)
                        => statConnections[K_active_waiting] = rows[1].count
                  /\ (rows[1].state = L_idle_in_transaction_aborted /\ ~rows[1].waiting)
                        => /\ statConnections[K_idle_in_transaction_aborted] = rows[1].count
                           /\ K_idle_in_transaction_aborted_ \notin DOMAIN statConnections

\* C8 witness: "idle in transaction (aborted)" was counted under
\* idle_in_transaction_aborted
C8_Witness ==
    /\ pc = "conns"
    /\ dbConn = Rows(<<ConnRow(2, L_idle_in_transaction_aborted, FALSE)>>)
    /\ statConnections[K_idle_in_transaction_aborted] = 2

\* C9: the map FetchMetrics returns has the keys of the three aggregator maps,
\* each with the value of the last of database counters, connection states,
\* size that has it; merging the three maps into it again changes nothing, and
\* the three maps are still what the aggregators returned.
C9_MergeOrder ==
    (pc = "returned" /\ ~ret.nil) =>
        LET a == statStatDatabase
            b == statConnections
            c == statDatabaseSize
        IN  /\ DOMAIN ret.stat = DOMAIN a \cup DOMAIN b \cup DOMAIN c
            /\ \A k \in DOMAIN ret.stat :
                 ret.stat[k] = IF k \in DOMAIN c THEN c[k]
                               ELSE IF k \in DOMAIN b THEN b[k]
                               ELSE a[k]
            /\ mergeStat(mergeStat(mergeStat(ret.stat, a), b), c) = ret.stat
            /\ a = fetchStatDatabase(dbStat).stat
            /\ b = fetchConnections(dbConn).stat
            /\ c = fetchDatabaseSize(dbSize).stat

\* C9 witness: a state label gave the key total_size with count 7, and the
\* returned map has the size aggregator's value under it
C9_Witness ==
    /\ pc = "returned" /\ ~ret.nil
    /\ K_total_size \in DOMAIN statConnections
    /\ statConnections[K_total_size] = 7
    /\ statDatabaseSize[K_total_size] = 5
    /\ ret.stat[K_total_size] = 5

\* C10: each of the five keys fetchConnections seeds is the Name of a metric
\* of the "connections" graph of GraphDefinition.
C10_SeededKeysInGraph ==
    pc = "conns" =>
        \A k \in C7_SeededKeys :
            k \in DOMAIN statConnections /\ k \in GraphDefinition.connections

\* the rows i and j of the answer are different (state, waiting) groups
C11_DistinctGroups(rows, i, j) ==
    rows[i].state # rows[j].state \/ rows[i].waiting # rows[j].waiting

\* the scanned rows of the answer are recorded each under a key of its own,
\* with its own count
C11_EachRowRecorded(rows) ==
    LET scanned == {i \in 1..Len(rows) : rows[i].scanOk}
        key(i) == stateKey(rows[i].state, rows[i].waiting)
    IN  /\ \A i, j \in scanned : i # j => key(i) # key(j)
        /\ \A i \in scanned :
              key(i) \in DOMAIN statConnections /\ statConnections[key(i)] = rows[i].count

\* C11: when the rows of the answer are pairwise distinct (state, waiting)
\* groups, no two of them have the same key and the value under each row's key
\* is that row's count.
C11_DistinctGroupsDistinctKeys ==
    pc = "conns" =>
        LET rows == dbConn.rows
        IN  (/\ \A i \in 1..Len(rows) : rows[i].scanOk
             /\ \A i, j \in 1..Len(rows) : i # j => C11_DistinctGroups(rows, i, j))
            => C11_EachRowRecorded(rows)

\* C11 as amended: when the rows that scan are pairwise distinct groups whose
\* states are among the six the server reports, no two of them have the same
\* key and the value under each row's key is that row's count.
C11_ServerStatesDistinctKeys ==
    pc = "conns" =>
        LET rows == dbConn.rows
            scanned == {i \in 1..Len(rows) : rows[i].scanOk}
        IN  (/\ \A i \in scanned : rows[i].state \in ServerStates
             /\ \A i, j \in scanned : i # j => C11_DistinctGroups(rows, i, j))
            => C11_EachRowRecorded(rows)

\* C11 witness: active waiting and active not waiting were counted apart
C11_Witness ==
    /\ pc = "conns"
    /\ dbConn = Rows(<<ConnRow(1, L_active, TRUE), ConnRow(2, L_active, FALSE)>>)
    /\ statConnections[K_active_waiting] = 1
    /\ statConnections[K_active] = 2

====
